---------------------------- MODULE Spec2Model ----------------------------
(***************************************************************************)
(* A model of the display components of rpiDisplay                         *)
(* (src/display-master/modules/src/Components.py): the ScrollingText and   *)
(* TickerText animators and the primitive shapes (Rect, Ellipse,           *)
(* RightTriangle).                                                         *)
(*                                                                         *)
(* Text is represented by the pixel length graphics.DrawText returns for   *)
(* it; the canvas by its width (and, for the grid scans, its rows and      *)
(* columns).  Every DrawText call of a handler is recorded in `drawn'.     *)
(***************************************************************************)
EXTENDS Integers, Sequences, FiniteSets, TLC

VARIABLES
    pc,             \* which component is live and how far its life cycle got
    canvas_width,   \* canvas.width as seen by loop()
    scroller,       \* the ScrollingText object (its attributes)
    drawn,          \* x positions handed to DrawText by the last draw()/loop()
    branch,         \* the branch of draw()/loop() taken by the last call
    calls,          \* loop() calls since draw(), saturating at MaxDelay + 2
    held,           \* consecutive hold calls at the position drawn last
    holds_since_turn, \* hold runs begun since the last direction reversal
    ticker,         \* the TickerText object (its attributes)
    ticks,          \* loop() calls made on the ticker
    window,         \* admissions - retirements + 1 of the ticker
    call,           \* the constructor call made: its class and arguments
    obj,            \* the object (or error) that constructor call gave
    pixels,         \* the SetPixel calls of Line.draw, per stroke iteration
    rot,            \* a component's pivot, a point array and what rotate() made of it
    label,          \* the Text object (its attributes)
    label_drawn,    \* the DrawText call of the last Text.draw()
    tloop,          \* the ThreadLoop object (its attributes)
    threads,        \* the Timer threads of the ThreadLoop: where each one is
    frames          \* invocations of the scheduled function begun so far

scrollVars == <<scroller, drawn, branch, calls, held, holds_since_turn>>
tickerVars == <<ticker, ticks, window>>
shapeVars == <<call, obj, pixels>>
rotVars == <<rot>>
textVars == <<label, label_drawn>>
threadVars == <<tloop, threads, frames>>
vars == <<pc, canvas_width, scrollVars, tickerVars, shapeVars,
          rotVars, textVars, threadVars>>

---------------------------------------------------------------------------
(* Bounds of the model *)
MaxWidth  == 4      \* canvas widths 3 .. MaxWidth
MaxLen    == 6      \* rendered text lengths 0 .. MaxLen
MaxDelay  == 2      \* delay 0 .. MaxDelay
MaxRate   == 2      \* |rate| in 1 .. MaxRate
MaxMsgs   == 3      \* a ticker holds 1 .. MaxMsgs messages
MaxMsgLen == 2      \* rendered message lengths 1 .. MaxMsgLen
MaxTicks  == 14     \* loop() calls made on a ticker
MaxDim    == 5      \* shape widths and heights -1 .. MaxDim
MaxAnchor == 1      \* shape anchors x, y in 0 .. MaxAnchor
MatrixCols == 6     \* MATRIX_COLS of the environment
MatrixRows == 6     \* MATRIX_ROWS of the environment
MaxCoord  == 1      \* point coordinates 0 .. MaxCoord handed to rotate()
MaxPoints == 2      \* a point array holds 0 .. MaxPoints points
MaxChars  == 2      \* a text holds 0 .. MaxChars characters
MaxTimers == 4      \* Timer threads a ThreadLoop starts in a run
MaxFrames == 3      \* Module.loop calls made on a Module
MaxWeight == 4      \* Line weights 0 .. MaxWeight

(* Scroll modes, ScrollingText.ONCE / LOOP / BOUNCE *)
ONCE   == 0
LOOP   == 1
BOUNCE == 2

None == [none |-> TRUE]
ValueError == [error |-> "ValueError"]

Abs(n) == IF n < 0 THEN -n ELSE n
Sign(n) == IF n < 0 THEN -1 ELSE IF n > 0 THEN 1 ELSE 0
Min(a, b) == IF a <= b THEN a ELSE b

---------------------------------------------------------------------------
(* ScrollingText *)

(* ScrollingText.__init__.  scroll_index becomes the quotient               *)
(* canvas.width / rate in loop(), so it is kept exactly, as a numerator     *)
(* over the fixed denominator Den(rate) = |rate| (1 for rate = 0).          *)
Den(rate) == IF rate = 0 THEN 1 ELSE Abs(rate)

ScrollingText(x_, text_len, speed, mode, delay, spacing) ==
    IF mode \notin {ONCE, LOOP, BOUNCE}
    THEN ValueError
    ELSE [ kind |-> "ScrollingText",
           x |-> x_, text_len |-> text_len,
           rate |-> speed, mode |-> mode, delay |-> delay, spacing |-> spacing,
           scroll_index |-> 0, delay_count |-> 0, direction_mult |-> 1,
           length |-> 0 ]

(* ScrollingText.draw: Text.draw at self.x, length measured, index advanced *)
ScrollDraw(s) ==
    [s EXCEPT !.length = s.text_len,
              !.scroll_index = s.scroll_index + 1 * Den(s.rate)]

(* newPos = self.x + self.rate * self.scroll_index *)
NewPos(s) == s.x + Sign(s.rate) * s.scroll_index

(* the `active delay' test letting one hold too many through *)
HoldActiveAtLimit(s, W) ==
    /\ \/ s.scroll_index = 0
       \/ s.mode = BOUNCE /\ NewPos(s) + s.length <= W
    /\ s.delay_count <= s.delay

(* the `active delay' test of loop() *)
HoldActive(s, W) ==
    /\ \/ s.scroll_index = 0
       \/ s.mode = BOUNCE /\ NewPos(s) + s.length <= W
    /\ s.delay_count < s.delay

(* ONCE: has the text left the display *)
OnceLeft(s, W) ==
    \/ s.rate < 0 /\ NewPos(s) + s.length < 0
    \/ s.rate > 0 /\ NewPos(s) > W

(* a slip: the index is left where it is *)
OnceFarEndKept(s, W) == s.scroll_index

(* ONCE: scroll_index = canvas.width / rate, as numerator over |rate| *)
OnceFarEnd(s, W) == W * Sign(s.rate)

(* LOOP: has the second string returned to the original position *)
LoopReturned(s) ==
    \/ s.rate < 0 /\ NewPos(s) + (s.length + s.spacing) < 0
    \/ s.rate > 0 /\ NewPos(s) - (s.length + s.spacing) > 0

(* LOOP: scroll_index = 0, then self.draw(canvas) *)
LoopReset(s) == ScrollDraw([s EXCEPT !.delay_count = 0, !.scroll_index = 0])

(* a slip: the left bounce limit one pixel late *)
BounceTurnLate(s, W) ==
    LET direction == s.rate * s.direction_mult IN
    \/ direction < 0 /\ NewPos(s) + s.length < W
    \/ direction > 0 /\ NewPos(s) > s.x + 1

(* BOUNCE: has the text reached the extreme end of the display *)
BounceTurn(s, W) ==
    LET direction == s.rate * s.direction_mult IN
    \/ direction < 0 /\ NewPos(s) + s.length < W
    \/ direction > 0 /\ NewPos(s) > s.x

(* the branch loop() takes on object s *)
LoopBranch(s, W) ==
    IF s.rate = 0 THEN "static"
    ELSE IF HoldActive(s, W) THEN "hold"
    ELSE IF s.mode = ONCE /\ OnceLeft(s, W) THEN "once_far_end"
    ELSE IF s.mode = LOOP /\ LoopReturned(s) THEN "loop_reset"
    ELSE IF s.mode = BOUNCE /\ BounceTurn(s, W) THEN "bounce_turn"
    ELSE "step"

(* the object after loop() *)
LoopResult(s, W) ==
    LET b == LoopBranch(s, W)
        step(t) == [t EXCEPT !.delay_count = 0,
                             !.scroll_index = t.scroll_index + 1 * t.direction_mult * Den(t.rate)]
    IN  CASE b = "static"       -> ScrollDraw(s)
          [] b = "hold"         -> [s EXCEPT !.delay_count = s.delay_count + 1]
          [] b = "once_far_end" -> step([s EXCEPT !.scroll_index = OnceFarEnd(s, W)])
          [] b = "loop_reset"   -> LoopReset(s)
          [] b = "bounce_turn"  -> step([s EXCEPT !.direction_mult = s.direction_mult * (-1)])
          [] OTHER              -> step(s)

(* the positions loop() hands to DrawText: the text, and in LOOP mode the   *)
(* second string                                                            *)
LoopDrawn(s, W) ==
    LET b == LoopBranch(s, W) IN
    IF b \in {"static", "loop_reset"} THEN <<s.x>>
    ELSE IF b = "hold" \/ s.mode # LOOP THEN <<NewPos(s)>>
    ELSE <<NewPos(s), NewPos(s) - (s.length + s.spacing) * Sign(s.rate)>>

Rates == {r \in -MaxRate..MaxRate : r # 0}

InitScroll ==
    /\ pc = "scroll_new"
    /\ canvas_width \in (MaxWidth - 1)..MaxWidth
    /\ \E x_ \in -1..MaxWidth, len \in 0..MaxLen, speed \in Rates,
          mode \in {ONCE, LOOP, BOUNCE}, delay \in 0..MaxDelay, spacing \in 0..1 :
            scroller = ScrollingText(x_, len, speed, mode, delay, spacing)
    /\ drawn = <<>>
    /\ branch = "init"
    /\ calls = 0
    /\ held = 0
    /\ holds_since_turn = 0
    /\ ticker = None /\ ticks = 0 /\ window = 0
    /\ call = None /\ obj = None /\ pixels = <<>>
    /\ rot = None /\ label = None /\ label_drawn = None
    /\ tloop = None /\ threads = None /\ frames = 0

(* Module.draw -> ScrollingText.draw: the initial frame *)
ScrollingTextDraw ==
    /\ pc = "scroll_new"
    /\ pc' = "scroll_drawn"
    /\ scroller' = ScrollDraw(scroller)
    /\ drawn' = <<scroller.x>>
    /\ branch' = "draw"
    /\ UNCHANGED <<canvas_width, calls, held, holds_since_turn, tickerVars, shapeVars,
                 rotVars, textVars, threadVars>>

(* ScrollingText.loop: one frame update *)
ScrollingTextLoop ==
    /\ pc = "scroll_drawn"
    /\ LET b == LoopBranch(scroller, canvas_width)
           d == LoopDrawn(scroller, canvas_width)
       IN  /\ scroller' = LoopResult(scroller, canvas_width)
           /\ drawn' = d
           /\ branch' = b
           /\ calls' = Min(calls + 1, MaxDelay + 2)
           /\ held' = IF b = "hold" THEN Min(held + 1, MaxDelay + 1)
                      ELSE IF d[1] = drawn[1] THEN held ELSE 0
           /\ holds_since_turn' =
                 IF b = "bounce_turn" THEN 0
                 ELSE IF b = "hold" /\ scroller.delay_count = 0
                      THEN Min(holds_since_turn + 1, 4)
                      ELSE holds_since_turn
    /\ UNCHANGED <<pc, canvas_width, tickerVars, shapeVars,
                 rotVars, textVars, threadVars>>

NextScroll == ScrollingTextDraw \/ ScrollingTextLoop

SpecScroll == InitScroll /\ [][NextScroll]_vars

(* a ScrollingText of speed 0: loop() only redraws it *)
InitStatic ==
    /\ pc = "scroll_new"
    /\ canvas_width \in (MaxWidth - 1)..MaxWidth
    /\ \E x_ \in -1..MaxWidth, len \in 0..MaxLen,
          mode \in {ONCE, LOOP, BOUNCE}, delay \in 0..MaxDelay, spacing \in 0..1 :
            scroller = ScrollingText(x_, len, 0, mode, delay, spacing)
    /\ drawn = <<>>
    /\ branch = "init"
    /\ calls = 0
    /\ held = 0
    /\ holds_since_turn = 0
    /\ ticker = None /\ ticks = 0 /\ window = 0
    /\ call = None /\ obj = None /\ pixels = <<>>
    /\ rot = None /\ label = None /\ label_drawn = None
    /\ tloop = None /\ threads = None /\ frames = 0

(* ScrollingText.loop, for as many frames as `calls' counts *)
StaticTextLoop ==
    /\ calls < MaxDelay + 2
    /\ ScrollingTextLoop

NextStatic == ScrollingTextDraw \/ StaticTextLoop

SpecStatic == InitStatic /\ [][NextStatic]_vars

---------------------------------------------------------------------------
(* TickerText *)

IndexError == [error |-> "IndexError"]

(* TickerText.__init__: messages are represented by their rendered lengths, *)
(* lens[i] being what DrawText returns for messages[i]                      *)
TickerText(lens, speed, spacing, wrap) ==
    LET n == Len(lens) IN
    [ kind |-> "TickerText",
      rate |-> speed, spacing |-> spacing, wrap |-> wrap,
      n |-> n, lens |-> [i \in 0..(n - 1) |-> lens[i + 1]],
      scroll_index |-> 0, length |-> 0,
      msg_x |-> [i \in 0..(n - 1) |-> 0],
      msg_len |-> [i \in 0..(n - 1) |-> 0],
      first_idx |-> 0, last_idx |-> 0 ]

(* TickerText.draw up to the assignment to msg_x[1] *)
TickerDrawHead(k) ==
    [k EXCEPT !.length = k.lens[0],
              !.scroll_index = k.scroll_index + 1,
              !.msg_len[0] = k.lens[0],
              !.msg_x[0] = k.msg_x[0] + k.rate]

(* TickerText.draw: msg_x[1] is seeded; a one-message list has no index 1 *)
TickerDraw(k) ==
    LET h == TickerDrawHead(k) IN
    IF k.n < 2 THEN IndexError
    ELSE [h EXCEPT !.msg_x[1] = h.msg_x[0] + h.msg_len[0] + h.spacing]

(* loop(): does the next message need to be displayed *)
Admits(k, W) ==
    \/ k.rate < 0 /\ k.msg_x[k.last_idx] + k.msg_len[k.last_idx] < W - k.spacing
    \/ k.rate > 0 /\ k.msg_x[k.last_idx] > k.spacing

(* Admit(k) stepping over the next message *)
AdmitSkips(k) ==
    LET nextMsg == (k.last_idx + 2) % k.n IN
    [k EXCEPT !.msg_x[nextMsg] =
                  k.msg_x[k.last_idx] + k.msg_len[k.last_idx] + k.spacing,
              !.last_idx = nextMsg]

(* loop(): the next message is placed and becomes the last of the window *)
Admit(k) ==
    LET nextMsg == IF k.last_idx + 1 >= k.n THEN 0 ELSE k.last_idx + 1 IN
    [k EXCEPT !.msg_x[nextMsg] =
                  k.msg_x[k.last_idx] + k.msg_len[k.last_idx] + k.spacing,
              !.last_idx = nextMsg]

(* loop(): has the first message left the frame *)
Retires(k, W) ==
    \/ k.rate < 0 /\ k.msg_x[k.first_idx] + k.msg_len[k.first_idx] < 0
    \/ k.rate > 0 /\ k.msg_x[k.first_idx] > W

(* loop(): the first message is dropped from the window *)
Retire(k) ==
    [k EXCEPT !.first_idx = IF k.first_idx + 1 >= k.n THEN 0 ELSE k.first_idx + 1]

(* loop(): the check value that ends the drawing loop *)
LastIdxCheckVal(k) ==
    k.last_idx + 1
      + (IF k.last_idx < k.first_idx
         THEN k.first_idx + (IF k.wrap THEN 1 ELSE 0)
         ELSE 0)

(* how often the drawing loop (idx = first_idx .. check value - 1) visits   *)
(* message i                                                                *)
Visits(k, i) ==
    Cardinality({idx \in k.first_idx..(LastIdxCheckVal(k) - 1) : idx % k.n = i})

(* loop(): every visited message is drawn, measured and advanced by rate *)
Render(k) ==
    [k EXCEPT !.msg_len = [i \in 0..(k.n - 1) |->
                              IF Visits(k, i) > 0 THEN k.lens[i] ELSE k.msg_len[i]],
              !.msg_x = [i \in 0..(k.n - 1) |->
                              k.msg_x[i] + k.rate * Visits(k, i)]]

(* the object after TickerText.loop *)
TickerLoopResult(k, W) ==
    IF k.rate = 0 THEN TickerDraw(k)
    ELSE LET a == IF Admits(k, W) THEN Admit(k) ELSE k
             r == IF Retires(a, W) THEN Retire(a) ELSE a
         IN  Render(r)

RECURSIVE SeqsUpTo(_, _)
SeqsUpTo(S, n) ==
    IF n = 0 THEN {<<>>}
    ELSE LET shorter == SeqsUpTo(S, n - 1) IN
         shorter \cup {Append(q, e) : q \in {u \in shorter : Len(u) = n - 1}, e \in S}

TickerRates == {-1, 0, 1}

InitTicker ==
    /\ pc = "ticker_new"
    /\ canvas_width \in (MaxWidth - 1)..MaxWidth
    /\ \E lens \in SeqsUpTo(1..MaxMsgLen, MaxMsgs) \ {<<>>},
          speed \in TickerRates, spacing \in 0..1, wrap \in BOOLEAN :
            ticker = TickerText(lens, speed, spacing, wrap)
    /\ ticks = 0 /\ window = 1
    /\ scroller = None /\ drawn = <<>> /\ branch = "init"
    /\ calls = 0 /\ held = 0 /\ holds_since_turn = 0
    /\ call = None /\ obj = None /\ pixels = <<>>
    /\ rot = None /\ label = None /\ label_drawn = None
    /\ tloop = None /\ threads = None /\ frames = 0

(* Module.draw -> TickerText.draw: the initial frame *)
TickerTextDraw ==
    /\ pc = "ticker_new"
    /\ LET k == TickerDraw(ticker) IN
       IF k = IndexError
       THEN pc' = "ticker_error" /\ ticker' = TickerDrawHead(ticker)
       ELSE pc' = "ticker_drawn" /\ ticker' = k
    /\ UNCHANGED <<canvas_width, ticks, window, scrollVars, shapeVars,
                 rotVars, textVars, threadVars>>

(* TickerText.loop: one frame update *)
TickerTextLoop ==
    /\ pc = "ticker_drawn"
    /\ ticks < MaxTicks
    /\ ticks' = ticks + 1
    /\ ticker' = TickerLoopResult(ticker, canvas_width)
    /\ window' = IF ticker.rate = 0 THEN window
                 ELSE LET a == IF Admits(ticker, canvas_width) THEN Admit(ticker) ELSE ticker
                      IN  window + (IF Admits(ticker, canvas_width) THEN 1 ELSE 0)
                                 - (IF Retires(a, canvas_width) THEN 1 ELSE 0)
    /\ UNCHANGED <<pc, canvas_width, scrollVars, shapeVars,
                 rotVars, textVars, threadVars>>

NextTicker == TickerTextDraw \/ TickerTextLoop

SpecTicker == InitTicker /\ [][NextTicker]_vars

---------------------------------------------------------------------------
(* Primitive shapes.  Shapes are unrotated (angle = 0), for which rotate()  *)
(* returns the point array it is given.                                     *)

(* colour tuples, as records of their channels: (r, g, b), and a tuple of   *)
(* two values                                                               *)
RGB(r_, g_, b_) == [r |-> r_, g |-> g_, b |-> b_]
Pair(r_, g_) == [r |-> r_, g |-> g_]

(* a colour argument that passes neither as None nor as a tuple of three    *)
(* values in [0, 255]                                                       *)
BadColor(c) ==
    /\ c # None
    /\ \/ Cardinality(DOMAIN c) # 3
       \/ \E i \in DOMAIN c : c[i] < 0 \/ c[i] > 255

(* a slip: the weight is compared with the height, not half of it *)
PrimitiveInitWholeHeight(x_, y_, w, h, fill, stroke, weight) ==
    IF w <= 0 \/ h <= 0 THEN ValueError
    ELSE IF BadColor(fill) \/ BadColor(stroke) THEN ValueError
    ELSE IF stroke # None /\ (weight < 0 \/ weight > h) THEN ValueError
    ELSE [ x |-> x_, y |-> y_, width |-> w, height |-> h,
           fill_color |-> fill, stroke_color |-> stroke,
           stroke_weight |-> IF stroke = None THEN 0 ELSE weight,
           rotation |-> 0 ]

(* PrimitiveComponent.__init__ up to the point computations *)
PrimitiveInit(x_, y_, w, h, fill, stroke, weight) ==
    IF w <= 0 \/ h <= 0 THEN ValueError
    ELSE IF BadColor(fill) \/ BadColor(stroke) THEN ValueError
    ELSE IF stroke # None /\ (weight < 0 \/ weight > h \div 2) THEN ValueError
    ELSE [ x |-> x_, y |-> y_, width |-> w, height |-> h,
           fill_color |-> fill, stroke_color |-> stroke,
           stroke_weight |-> IF stroke = None THEN 0 ELSE weight,
           rotation |-> 0 ]

(* np.arange(a, b) *)
Arange(a, b) == [i \in 1..(IF b > a THEN b - a ELSE 0) |-> a + i - 1]

(* np.meshgrid(X, Y), ravelled and column-stacked: the points (x, y), one   *)
(* row of the grid after the other                                          *)
MeshPts(X, Y) ==
    [i \in 1..(Len(X) * Len(Y)) |->
        <<X[((i - 1) % Len(X)) + 1], Y[((i - 1) \div Len(X)) + 1]>>]

SeqSet(s) == {s[i] : i \in 1..Len(s)}

(* Rect.getFillPts *)
RectFillPts(o) ==
    IF o.fill_color = None THEN <<>>
    ELSE LET fillX == o.x + o.stroke_weight
             fillY == o.y + o.stroke_weight
             fillW == o.width - 2 * o.stroke_weight
             fillH == o.height - 2 * o.stroke_weight
         IN  MeshPts(Arange(fillX, fillX + fillW), Arange(fillY, fillY + fillH))

(* a slip: the vertical sides span the whole height *)
RectStrokePtsFullSides(o) ==
    IF o.stroke_color = None THEN <<>>
    ELSE LET horizX == Arange(o.x, o.x + o.width)
             topY == Arange(o.y, o.y + o.stroke_weight)
             bottomY == Arange(o.y + o.height - o.stroke_weight, o.y + o.height)
             leftX == Arange(o.x, o.x + o.stroke_weight)
             rightX == Arange(o.x + o.width - o.stroke_weight, o.x + o.width)
             vertY == Arange(o.y, o.y + o.height)
         IN  MeshPts(horizX, topY \o bottomY) \o MeshPts(leftX \o rightX, vertY)

(* Rect.getStrokePts *)
RectStrokePts(o) ==
    IF o.stroke_color = None THEN <<>>
    ELSE LET horizX == Arange(o.x, o.x + o.width)
             topY == Arange(o.y, o.y + o.stroke_weight)
             bottomY == Arange(o.y + o.height - o.stroke_weight, o.y + o.height)
             leftX == Arange(o.x, o.x + o.stroke_weight)
             rightX == Arange(o.x + o.width - o.stroke_weight, o.x + o.width)
             vertY == Arange(o.y + o.stroke_weight, o.y + o.height - o.stroke_weight)
         IN  MeshPts(horizX, topY \o bottomY) \o MeshPts(leftX \o rightX, vertY)

(* Rect(...) *)
Rect(x_, y_, w, h, fill, stroke, weight) ==
    LET o == PrimitiveInit(x_, y_, w, h, fill, stroke, weight) IN
    IF o = ValueError THEN ValueError
    ELSE [ kind |-> "Rect", x |-> o.x, y |-> o.y,
           width |-> o.width, height |-> o.height,
           fill_color |-> o.fill_color, stroke_color |-> o.stroke_color,
           stroke_weight |-> o.stroke_weight, rotation |-> o.rotation,
           fill_pts |-> RectFillPts(o), stroke_pts |-> RectStrokePts(o) ]

(* the grid of RightTriangle: np.ogrid[:canvasW, :canvasH] with one         *)
(* subtracted from the matrix columns and rows                              *)
TriangleGrid == (0..(MatrixCols - 2)) \X (0..(MatrixRows - 2))

(* gridY - slope * gridX compared with a bound num / den, slope being       *)
(* height / width: both sides are multiplied by width * den > 0             *)
HypGeq(o, g, num, den) == den * (o.width * g[2] - o.height * g[1]) >= num * o.width
HypGt(o, g, num, den)  == den * (o.width * g[2] - o.height * g[1]) > num * o.width
HypLeq(o, g, num, den) == den * (o.width * g[2] - o.height * g[1]) <= num * o.width

(* RightTriangle.getFillPts: TOLERANCE = -0.99 *)
TriangleFillPts(o) ==
    IF o.fill_color = None THEN {}
    ELSE { <<g[1] + o.x, g[2] + o.y>> : g \in
             { g \in TriangleGrid :
                 /\ HypGeq(o, g, 100 * o.stroke_weight - 99, 100)
                 /\ g[1] >= o.stroke_weight
                 /\ g[2] <= o.height - o.stroke_weight } }

(* RightTriangle.getStrokePts: OUTER_SHIFT = stroke_weight - 1,             *)
(* TOLERANCE = 0.5                                                          *)
TriangleStrokePts(o) ==
    IF o.stroke_color = None THEN {}
    ELSE LET OUTER_SHIFT == o.stroke_weight - 1
             strokeMaskOuter(g) == HypGt(o, g, -o.stroke_weight + OUTER_SHIFT, 1)
             strokeMaskHypotenuse(g) ==
                 /\ strokeMaskOuter(g)
                 /\ HypLeq(o, g, 2 * (0 + OUTER_SHIFT) + 1, 2)
                 /\ g[2] >= 0 /\ g[2] <= o.height
             strokeMaskLeft(g) ==
                 /\ g[1] >= 0 /\ g[1] < o.stroke_weight
                 /\ g[2] <= o.height
                 /\ strokeMaskOuter(g)
             strokeMaskBottom(g) ==
                 /\ g[2] <= o.height /\ g[2] > o.height - o.stroke_weight
                 /\ g[1] >= 0
                 /\ strokeMaskOuter(g)
         IN  { <<g[1] + o.x, g[2] + o.y>> : g \in
                 { g \in TriangleGrid :
                     strokeMaskHypotenuse(g) \/ strokeMaskLeft(g) \/ strokeMaskBottom(g) } }

(* RightTriangle(...) *)
RightTriangle(x_, y_, w, h, fill, stroke, weight) ==
    LET o == PrimitiveInit(x_, y_, w, h, fill, stroke, weight) IN
    IF o = ValueError THEN ValueError
    ELSE [ kind |-> "RightTriangle", x |-> o.x, y |-> o.y,
           width |-> o.width, height |-> o.height,
           fill_color |-> o.fill_color, stroke_color |-> o.stroke_color,
           stroke_weight |-> o.stroke_weight, rotation |-> o.rotation,
           fill_pts |-> TriangleFillPts(o), stroke_pts |-> TriangleStrokePts(o) ]

(* the grid of Ellipse: np.ogrid[:canvasW, :canvasH] *)
EllipseGrid == (0..(MatrixCols - 1)) \X (0..(MatrixRows - 1))

(* ((gx - ctrX) / (axisA - k)) ** 2 + ((gy - ctrY) / (axisB - k)) ** 2      *)
(*   <= 1 + tolerance, with ctrX = x + width / 2, axisA = width / 2 and     *)
(* tolerance = 0.05, cleared of its denominators.  A zero axis makes the    *)
(* quotient inf or nan, and the comparison false.                           *)
EllipseMask(o, g, k) ==
    LET dx == 2 * g[1] - 2 * o.x - o.width
        dy == 2 * g[2] - 2 * o.y - o.height
        a == o.width - 2 * k
        b == o.height - 2 * k
    IN  /\ a # 0 /\ b # 0
        /\ 20 * (dx * dx * b * b + dy * dy * a * a) <= 21 * a * a * b * b

(* Ellipse.getAllPts: the points of the outer mask, and those of them in    *)
(* the inner mask; indexing the empty outer array raises IndexError         *)
EllipseStrokeMaskPts(o) == { g \in EllipseGrid : EllipseMask(o, g, 0) }

EllipseFillPts(o) ==
    { g \in EllipseStrokeMaskPts(o) : EllipseMask(o, g, o.stroke_weight) }

(* Ellipse(...) whose stroke_pts is the outer set itself *)
EllipseNoSubtract(x_, y_, w, h, fill, stroke, weight) ==
    LET o == PrimitiveInit(x_, y_, w, h, fill, stroke, weight) IN
    IF o = ValueError THEN ValueError
    ELSE IF EllipseStrokeMaskPts(o) = {} THEN IndexError
    ELSE [ kind |-> "Ellipse", x |-> o.x, y |-> o.y,
           width |-> o.width, height |-> o.height,
           fill_color |-> o.fill_color, stroke_color |-> o.stroke_color,
           stroke_weight |-> o.stroke_weight, rotation |-> o.rotation,
           fill_pts |-> EllipseFillPts(o),
           stroke_pts |-> EllipseStrokeMaskPts(o) ]

(* Ellipse(...) *)
Ellipse(x_, y_, w, h, fill, stroke, weight) ==
    LET o == PrimitiveInit(x_, y_, w, h, fill, stroke, weight) IN
    IF o = ValueError THEN ValueError
    ELSE IF EllipseStrokeMaskPts(o) = {} THEN IndexError
    ELSE [ kind |-> "Ellipse", x |-> o.x, y |-> o.y,
           width |-> o.width, height |-> o.height,
           fill_color |-> o.fill_color, stroke_color |-> o.stroke_color,
           stroke_weight |-> o.stroke_weight, rotation |-> o.rotation,
           fill_pts |-> EllipseFillPts(o),
           stroke_pts |-> EllipseStrokeMaskPts(o) \ EllipseFillPts(o) ]

(* colour arguments: absent, two valid colours, and tuples the constructor  *)
(* rejects                                                                  *)
Colors == {None, RGB(0, 0, 0), RGB(255, 255, 255), RGB(-1, 0, 0), RGB(0, 256, 0),
           Pair(0, 0)}

Dims == -1..MaxDim
Anchors == 0..MaxAnchor
Weights == -1..(MaxDim \div 2 + 1)
Modes == -1..3

InitShapes ==
    /\ pc = "no_object"
    /\ call = None /\ obj = None /\ pixels = <<>>
    /\ rot = None /\ label = None /\ label_drawn = None
    /\ tloop = None /\ threads = None /\ frames = 0
    /\ canvas_width = MaxWidth
    /\ scroller = None /\ drawn = <<>> /\ branch = "init"
    /\ calls = 0 /\ held = 0 /\ holds_since_turn = 0
    /\ ticker = None /\ ticks = 0 /\ window = 0

Construct(c, o) ==
    /\ pc' = "constructed"
    /\ call' = c
    /\ obj' = o
    /\ UNCHANGED <<canvas_width, pixels, scrollVars, tickerVars,
                 rotVars, textVars, threadVars>>

NewRect ==
    /\ pc = "no_object"
    /\ \E x_ \in Anchors, y_ \in Anchors, w \in Dims, h \in Dims,
          fill \in Colors, stroke \in Colors, weight \in Weights :
        Construct([kind |-> "Rect", w |-> w, h |-> h, fill |-> fill,
                   stroke |-> stroke, weight |-> weight, x |-> x_, y |-> y_],
                  Rect(x_, y_, w, h, fill, stroke, weight))

NewEllipse ==
    /\ pc = "no_object"
    /\ \E x_ \in Anchors, y_ \in Anchors, w \in Dims, h \in Dims,
          fill \in Colors, stroke \in Colors, weight \in Weights :
        Construct([kind |-> "Ellipse", w |-> w, h |-> h, fill |-> fill,
                   stroke |-> stroke, weight |-> weight, x |-> x_, y |-> y_],
                  Ellipse(x_, y_, w, h, fill, stroke, weight))

NewRightTriangle ==
    /\ pc = "no_object"
    /\ \E x_ \in Anchors, y_ \in Anchors, w \in Dims, h \in Dims,
          fill \in Colors, stroke \in Colors, weight \in Weights :
        Construct([kind |-> "RightTriangle", w |-> w, h |-> h, fill |-> fill,
                   stroke |-> stroke, weight |-> weight, x |-> x_, y |-> y_],
                  RightTriangle(x_, y_, w, h, fill, stroke, weight))

NewScrollingText ==
    /\ pc = "no_object"
    /\ \E x_ \in Anchors, len \in 0..MaxLen, speed \in Rates, mode \in Modes,
          delay \in 0..MaxDelay :
        Construct([kind |-> "ScrollingText", mode |-> mode, x |-> x_,
                   text_len |-> len, speed |-> speed, delay |-> delay],
                  ScrollingText(x_, len, speed, mode, delay, 0))

NextShapes == NewRect \/ NewEllipse \/ NewRightTriangle \/ NewScrollingText

SpecShapes == InitShapes /\ [][NextShapes]_vars

---------------------------------------------------------------------------
(* Line *)

Max(a, b) == IF a >= b THEN a ELSE b

(* Line.__init__: the stroke colour must be a valid tuple, the weight >= 1 *)
Line(startX, startY, endX, endY, stroke, weight) ==
    IF stroke = None \/ BadColor(stroke) THEN ValueError
    ELSE IF weight < 1 THEN ValueError
    ELSE [ kind |-> "Line", x0 |-> startX, y0 |-> startY,
           x1 |-> endX, y1 |-> endY,
           stroke_color |-> stroke, stroke_weight |-> weight ]

(* (-1) ** wt *)
Alternate(wt) == IF wt % 2 = 0 THEN 1 ELSE -1

(* np.trunc(n / d) for d > 0: towards zero *)
Trunc(n, d) == IF n >= 0 THEN n \div d ELSE -((-n) \div d)

(* Line.draw, vertical branch (ZeroDivisionError caught): the pixels of     *)
(* stroke iteration wt, with wtFactor = wt * ((-1) ** wt)                   *)
VerticalPixels(l, wt) ==
    { <<l.x0 + wt * Alternate(wt), y>> : y \in Max(0, l.y0)..(Min(33, l.y1) - 1) }

(* Line.draw, sloped branch: the pixels of stroke iteration wt, with        *)
(* wtFactor = np.ceil(wt / 2) * ((-1) ** wt) and                            *)
(* y = np.trunc(m * x + self.y0 + wtFactor), m = (y1 - y0) / (x1 - x0)      *)
SlopedPixels(l, wt) ==
    LET wtFactor == ((wt + 1) \div 2) * Alternate(wt)
        dx == l.x1 - l.x0
        dy == l.y1 - l.y0
    IN  { <<x, Trunc(dy * x + (l.y0 + wtFactor) * dx, dx)>> :
            x \in Max(0, l.x0)..(Min(65, l.x1) - 1) }

(* Line.draw: the SetPixel calls of each stroke iteration wt = 0 .. weight-1 *)
LineDrawPixels(l) ==
    [ i \in 1..l.stroke_weight |->
        IF l.x1 = l.x0 THEN VerticalPixels(l, i - 1) ELSE SlopedPixels(l, i - 1) ]

LineWeights == 0..MaxWeight

InitLine ==
    /\ pc = "line_new"
    /\ \E startX \in 0..MaxDim, startY \in 0..MaxDim, endX \in 0..MaxDim,
          endY \in 0..MaxDim, weight \in LineWeights,
          stroke \in {None, RGB(255, 255, 255)} :
          /\ call = [kind |-> "Line", x0 |-> startX, y0 |-> startY, x1 |-> endX,
                     y1 |-> endY, stroke |-> stroke, weight |-> weight]
          /\ obj = Line(startX, startY, endX, endY, stroke, weight)
    /\ pixels = <<>>
    /\ canvas_width = MaxWidth
    /\ scroller = None /\ drawn = <<>> /\ branch = "init"
    /\ calls = 0 /\ held = 0 /\ holds_since_turn = 0
    /\ ticker = None /\ ticks = 0 /\ window = 0
    /\ rot = None /\ label = None /\ label_drawn = None
    /\ tloop = None /\ threads = None /\ frames = 0

(* Line.draw *)
LineDraw ==
    /\ pc = "line_new"
    /\ obj # ValueError
    /\ pc' = "line_drawn"
    /\ pixels' = LineDrawPixels(obj)
    /\ UNCHANGED <<canvas_width, call, obj, scrollVars, tickerVars,
                   rotVars, textVars, threadVars>>

NextLine == LineDraw

SpecLine == InitLine /\ [][NextLine]_vars

---------------------------------------------------------------------------
(* PrimitiveComponent.rotate, for the angles that are multiples of 90.  A   *)
(* point array is a record of its Python type ("ndarray", "tuple" or "set") *)
(* and the points it holds.                                                 *)

TypeError == [error |-> "TypeError"]

(* the unit of the float values of np.cos and np.sin: 1.0 is Scale units.   *)
(* At a multiple of 90 degrees the float that should be 0 is a residue of   *)
(* some 1e-16 (cos(pi/2) = 6.1e-17, sin(2 pi) = -2.4e-16); it is kept, with *)
(* its sign, as one whole unit.                                             *)
Scale == 1000

(* np.cos(np.radians(a)), np.sin(np.radians(a)) for a >= 0 *)
TrigAbs(a) ==
    LET q == (a % 360) \div 90 IN
    IF a = 0 THEN [cos |-> Scale, sin |-> 0]
    ELSE IF q = 0 THEN [cos |-> Scale, sin |-> -1]
    ELSE IF q = 1 THEN [cos |-> 1, sin |-> Scale]
    ELSE IF q = 2 THEN [cos |-> -Scale, sin |-> 1]
    ELSE [cos |-> -1, sin |-> -Scale]

(* cos is even and sin is odd in the angle *)
Trig(degrees) ==
    [cos |-> TrigAbs(Abs(degrees)).cos,
     sin |-> Sign(degrees) * TrigAbs(Abs(degrees)).sin]

(* np.round of v / Scale: to the nearest integer, halves to the even one *)
Round(v) ==
    LET q == v \div Scale
        r == v % Scale
    IN  IF 2 * r < Scale THEN q
        ELSE IF 2 * r > Scale THEN q + 1
        ELSE IF q % 2 = 0 THEN q ELSE q + 1

(* one row of ((points + translate) @ rotation_matrix.T) - translate,       *)
(* rounded                                                                  *)
RotatePoint(p, x, y, degrees) ==
    LET t == Trig(degrees)
        dx == p[1] - x
        dy == p[2] - y
    IN  << Round(dx * t.cos - dy * t.sin + x * Scale),
           Round(dx * t.sin + dy * t.cos + y * Scale) >>

(* rotate(ptArray, degrees) of a component at (x, y).  np.array of a set is *)
(* a 0-d object array, and adding the translation to it raises TypeError;   *)
(* np.array of the empty tuple has shape (0,), which does not broadcast     *)
(* with the translation (ValueError).                                       *)
Rotate(ptArray, x, y, degrees) ==
    IF degrees = 0 THEN ptArray
    ELSE IF ptArray.type = "set" THEN TypeError
    ELSE IF ptArray.type = "tuple" /\ ptArray.pts = {} THEN ValueError
    ELSE [ type |-> "set",
           pts |-> { RotatePoint(p, x, y, degrees) : p \in ptArray.pts } ]

Angles == {0, 90, -90, 180, 270, 360, -360, 720}
PtTypes == {"ndarray", "tuple", "set"}
PtGrid == (0..MaxCoord) \X (0..MaxCoord)
PtSets == { P \in SUBSET PtGrid : Cardinality(P) <= MaxPoints }

InitRotate ==
    /\ pc = "rotate_ready"
    /\ \E x \in Anchors, y \in Anchors, ty \in PtTypes, P \in PtSets :
          rot = [ x |-> x, y |-> y, input |-> [type |-> ty, pts |-> P],
                  value |-> [type |-> ty, pts |-> P], angles |-> <<>> ]
    /\ canvas_width = MaxWidth
    /\ scroller = None /\ drawn = <<>> /\ branch = "init"
    /\ calls = 0 /\ held = 0 /\ holds_since_turn = 0
    /\ ticker = None /\ ticks = 0 /\ window = 0
    /\ call = None /\ obj = None /\ pixels = <<>>
    /\ label = None /\ label_drawn = None
    /\ tloop = None /\ threads = None /\ frames = 0

(* self.rotate(value, degrees): applied to the input, then to its result *)
RotateCall ==
    /\ pc = "rotate_ready"
    /\ Len(rot.angles) < 2
    /\ "pts" \in DOMAIN rot.value
    /\ \E d \in Angles :
          rot' = [rot EXCEPT !.value = Rotate(rot.value, rot.x, rot.y, d),
                             !.angles = Append(rot.angles, d)]
    /\ UNCHANGED <<pc, canvas_width, scrollVars, tickerVars, shapeVars,
                   textVars, threadVars>>

NextRotate == RotateCall

SpecRotate == InitRotate /\ [][NextRotate]_vars

---------------------------------------------------------------------------
(* Text and DateTimeDisplay.  A text is a sequence of characters; the font  *)
(* gives each character its advance.                                        *)

Chars == {"i", "m"}

(* font.CharacterWidth(ord(c)): a narrow and a wide glyph *)
CharacterWidth(c) == IF c = "i" THEN 1 ELSE 3

(* adjustAlignment(): totalLen, summed over the characters of the text *)
RECURSIVE TotalLen(_)
TotalLen(text) ==
    IF text = <<>> THEN 0
    ELSE CharacterWidth(Head(text)) + TotalLen(Tail(text))

(* adjustAlignment() measuring from where the text stands now *)
AdjustAlignmentFromX(t) ==
    IF t.right_aligned
    THEN [t EXCEPT !.x = t.x - TotalLen(t.text), !.measured = t.text]
    ELSE t

(* Text.adjustAlignment; `measured' keeps the content it measured *)
AdjustAlignment(t) ==
    IF t.right_aligned
    THEN [t EXCEPT !.x = t.x_og - TotalLen(t.text), !.measured = t.text]
    ELSE t

(* Text.__init__ *)
Text(x_, text_, rightAlign) ==
    AdjustAlignment([ kind |-> "Text", x |-> x_, x_og |-> x_, text |-> text_,
                      right_aligned |-> rightAlign, measured |-> text_ ])

(* graphics.DrawText(canvas, font, self.x, self.y, font_color, self.text) *)
DrawTextCall(t, caller) ==
    [ x |-> t.x, text |-> t.text, measured |-> t.measured, by |-> caller ]

Texts == SeqsUpTo(Chars, MaxChars)

InitText ==
    /\ pc = "text_ready"
    /\ \E x_ \in (MaxWidth - 1)..MaxWidth, text_ \in Texts, rightAlign \in BOOLEAN :
          label = Text(x_, text_, rightAlign)
    /\ label_drawn = None
    /\ canvas_width = MaxWidth
    /\ scroller = None /\ drawn = <<>> /\ branch = "init"
    /\ calls = 0 /\ held = 0 /\ holds_since_turn = 0
    /\ ticker = None /\ ticks = 0 /\ window = 0
    /\ call = None /\ obj = None /\ pixels = <<>>
    /\ rot = None
    /\ tloop = None /\ threads = None /\ frames = 0

(* a consumer assigns new content: self.text = ... *)
SetText ==
    /\ pc = "text_ready"
    /\ \E text_ \in Texts \ {label.text} : label' = [label EXCEPT !.text = text_]
    /\ UNCHANGED <<pc, canvas_width, label_drawn, scrollVars, tickerVars,
                   shapeVars, rotVars, threadVars>>

(* a consumer calls adjustAlignment() *)
TextAdjustAlignment ==
    /\ pc = "text_ready"
    /\ label' = AdjustAlignment(label)
    /\ UNCHANGED <<pc, canvas_width, label_drawn, scrollVars, tickerVars,
                   shapeVars, rotVars, threadVars>>

(* Text.draw *)
TextDraw ==
    /\ pc = "text_ready"
    /\ label_drawn' = DrawTextCall(label, "Text.draw")
    /\ UNCHANGED <<pc, canvas_width, label, scrollVars, tickerVars,
                   shapeVars, rotVars, threadVars>>

(* DateTimeDisplay.loop: new content (the time now), adjustAlignment, draw *)
DateTimeDisplayLoop ==
    /\ pc = "text_ready"
    /\ \E now \in Texts :
          LET t == AdjustAlignment([label EXCEPT !.text = now]) IN
          /\ label' = t
          /\ label_drawn' = DrawTextCall(t, "DateTimeDisplay.loop")
    /\ UNCHANGED <<pc, canvas_width, scrollVars, tickerVars,
                   shapeVars, rotVars, threadVars>>

NextText == SetText \/ TextAdjustAlignment \/ TextDraw \/ DateTimeDisplayLoop

SpecText == InitText /\ [][NextText]_vars

---------------------------------------------------------------------------
(* ThreadLoop.  Every threading.Timer is a thread of its own: it waits for  *)
(* the interval and then runs ThreadLoop._run.  The statements of _run are  *)
(* separate steps, so that the Timer threads interleave as Python threads   *)
(* do; how long the scheduled function runs is left open.                   *)

TimerIds == 1..MaxTimers

(* ThreadLoop.__init__, which ends in self.start(): the first Timer waits *)
ThreadLoop ==
    [ is_running |-> TRUE, timer |-> 1 ]

InitThread ==
    /\ pc = "thread_loop"
    /\ tloop = ThreadLoop
    /\ threads = [i \in TimerIds |-> IF i = 1 THEN "waiting" ELSE "unborn"]
    /\ frames = 0
    /\ canvas_width = MaxWidth
    /\ scroller = None /\ drawn = <<>> /\ branch = "init"
    /\ calls = 0 /\ held = 0 /\ holds_since_turn = 0
    /\ ticker = None /\ ticks = 0 /\ window = 0
    /\ call = None /\ obj = None /\ pixels = <<>>
    /\ rot = None /\ label = None /\ label_drawn = None

(* the shell has the loop running, is inside stop(), or has stopped it *)
ThreadLoopPcs == {"thread_loop", "thread_stopping", "thread_stopped"}

(* the interval of Timer i has passed: its thread enters _run *)
TimerExpires(i) ==
    /\ pc \in ThreadLoopPcs
    /\ threads[i] = "waiting"
    /\ threads' = [threads EXCEPT ![i] = "run"]
    /\ UNCHANGED <<pc, canvas_width, tloop, frames, scrollVars, tickerVars,
                   shapeVars, rotVars, textVars>>

(* _run: self.is_running = False *)
RunClears(i) ==
    /\ pc \in ThreadLoopPcs
    /\ threads[i] = "run"
    /\ tloop' = [tloop EXCEPT !.is_running = FALSE]
    /\ threads' = [threads EXCEPT ![i] = "start"]
    /\ UNCHANGED <<pc, canvas_width, frames, scrollVars, tickerVars,
                   shapeVars, rotVars, textVars>>

(* _run: self.start(), which starts the next Timer unless one is running,   *)
(* and then the call of self.function                                       *)
RunStarts(i) ==
    /\ pc \in ThreadLoopPcs
    /\ threads[i] = "start"
    /\ IF tloop.is_running
       THEN /\ threads' = [threads EXCEPT ![i] = "function"]
            /\ UNCHANGED tloop
       ELSE \E j \in TimerIds :
              /\ threads[j] = "unborn"
              /\ \A l \in TimerIds : threads[l] = "unborn" => j <= l
              /\ threads' = [threads EXCEPT ![i] = "function", ![j] = "waiting"]
              /\ tloop' = [is_running |-> TRUE, timer |-> j]
    /\ frames' = frames + 1
    /\ UNCHANGED <<pc, canvas_width, scrollVars, tickerVars,
                   shapeVars, rotVars, textVars>>

(* self.function returns, and with it _run *)
FunctionReturns(i) ==
    /\ pc \in ThreadLoopPcs
    /\ threads[i] = "function"
    /\ threads' = [threads EXCEPT ![i] = "done"]
    /\ UNCHANGED <<pc, canvas_width, tloop, frames, scrollVars, tickerVars,
                   shapeVars, rotVars, textVars>>

(* self.function raises: _run goes to its except clause *)
FunctionRaises(i) ==
    /\ pc \in ThreadLoopPcs
    /\ threads[i] = "function"
    /\ threads' = [threads EXCEPT ![i] = "except"]
    /\ UNCHANGED <<pc, canvas_width, tloop, frames, scrollVars, tickerVars,
                   shapeVars, rotVars, textVars>>

(* _run: self.stop(), first statement: self._timer.cancel(), which stops   *)
(* that Timer only if it still waits                                        *)
RunCancels(i) ==
    /\ pc \in ThreadLoopPcs
    /\ threads[i] = "except"
    /\ threads' = [l \in TimerIds |->
                     IF l = i THEN "stop"
                     ELSE IF l = tloop.timer /\ threads[l] = "waiting" THEN "cancelled"
                     ELSE threads[l]]
    /\ UNCHANGED <<pc, canvas_width, tloop, frames, scrollVars, tickerVars,
                   shapeVars, rotVars, textVars>>

(* _run: self.stop(), second statement: self.is_running = False; the thread *)
(* of the failed invocation ends                                            *)
RunStops(i) ==
    /\ pc \in ThreadLoopPcs
    /\ threads[i] = "stop"
    /\ threads' = [threads EXCEPT ![i] = "failed"]
    /\ tloop' = [tloop EXCEPT !.is_running = FALSE]
    /\ UNCHANGED <<pc, canvas_width, frames, scrollVars, tickerVars,
                   shapeVars, rotVars, textVars>>

(* do_stop on the shell thread: modThread.stop(), first statement *)
ShellCancels ==
    /\ pc = "thread_loop"
    /\ pc' = "thread_stopping"
    /\ threads' = [l \in TimerIds |->
                     IF l = tloop.timer /\ threads[l] = "waiting" THEN "cancelled"
                     ELSE threads[l]]
    /\ UNCHANGED <<canvas_width, tloop, frames, scrollVars, tickerVars,
                   shapeVars, rotVars, textVars>>

(* do_stop on the shell thread: modThread.stop(), second statement; stop()  *)
(* has returned                                                             *)
ShellStops ==
    /\ pc = "thread_stopping"
    /\ pc' = "thread_stopped"
    /\ tloop' = [tloop EXCEPT !.is_running = FALSE]
    /\ UNCHANGED <<canvas_width, threads, frames, scrollVars, tickerVars,
                   shapeVars, rotVars, textVars>>

NextThread ==
    \/ \E i \in TimerIds :
          \/ TimerExpires(i) \/ RunClears(i) \/ RunStarts(i)
          \/ FunctionReturns(i) \/ FunctionRaises(i)
          \/ RunCancels(i) \/ RunStops(i)
    \/ ShellCancels
    \/ ShellStops

SpecThread == InitThread /\ [][NextThread]_vars

---------------------------------------------------------------------------
(* Module, holding one ScrollingText in self.components.  `frames' counts   *)
(* the calls of Module.loop.                                                *)

InitModule ==
    /\ pc = "module_new"
    /\ canvas_width \in (MaxWidth - 1)..MaxWidth
    /\ \E x_ \in 0..MaxWidth, len \in 1..MaxLen, speed \in Rates,
          mode \in {ONCE, LOOP, BOUNCE}, delay \in 0..MaxDelay :
            scroller = ScrollingText(x_, len, speed, mode, delay, 0)
    /\ drawn = <<>>
    /\ branch = "init"
    /\ calls = 0
    /\ held = 0
    /\ holds_since_turn = 0
    /\ frames = 0
    /\ ticker = None /\ ticks = 0 /\ window = 0
    /\ call = None /\ obj = None /\ pixels = <<>>
    /\ rot = None /\ label = None /\ label_drawn = None
    /\ tloop = None /\ threads = None

(* Module.draw: canvas.Clear(), c.draw(canvas) for c in self.components,    *)
(* SwapOnVSync                                                              *)
ModuleDrawComponents ==
    /\ scroller' = ScrollDraw(scroller)
    /\ drawn' = <<scroller.x>>
    /\ branch' = "draw"

(* Module.draw, the initial frame *)
ModuleDraw ==
    /\ pc = "module_new"
    /\ pc' = "module_drawn"
    /\ ModuleDrawComponents
    /\ UNCHANGED <<canvas_width, calls, held, holds_since_turn, frames, tloop,
                   threads, tickerVars, shapeVars, rotVars, textVars>>

(* Module.loop: self.update(), which does nothing, then self.draw() *)
ModuleLoop ==
    /\ pc = "module_drawn"
    /\ frames < MaxFrames
    /\ frames' = frames + 1
    /\ ModuleDrawComponents
    /\ UNCHANGED <<pc, canvas_width, calls, held, holds_since_turn, tloop,
                   threads, tickerVars, shapeVars, rotVars, textVars>>

NextModule == ModuleDraw \/ ModuleLoop

SpecModule == InitModule /\ [][NextModule]_vars

---------------------------------------------------------------------------
(* Properties of ScrollingText *)

AnchorOnCanvas == scroller.x \in 0..canvas_width

(* the text is wider than the canvas, the case scrolling is meant for *)
LongText == AnchorOnCanvas /\ scroller.length > canvas_width

(* the text drawn at p is entirely outside the viewport, on the side it     *)
(* travels to                                                               *)
Outside(p) ==
    \/ scroller.rate < 0 /\ p + scroller.length < 0
    \/ scroller.rate > 0 /\ p > canvas_width

OnceRunning == pc = "scroll_drawn" /\ scroller.mode = ONCE /\ AnchorOnCanvas

C2_BounceWithinOnePixel ==
    (pc = "scroll_drawn" /\ scroller.mode = BOUNCE
        /\ scroller.rate \in {-1, 1} /\ AnchorOnCanvas)
    => \A i \in 1..Len(drawn) :
          /\ ~(drawn[i] + scroller.length < -1)
          /\ ~(drawn[i] > canvas_width + 1)

(* C2 witness: a bouncing text drawn one pixel right of the canvas, on the  *)
(* call that turns it around                                                *)
C2_AtTheLimit ==
    /\ pc = "scroll_drawn" /\ scroller.mode = BOUNCE
    /\ scroller.rate \in {-1, 1} /\ AnchorOnCanvas
    /\ branch = "bounce_turn"
    /\ drawn[1] = canvas_width + 1

(* C3 as stated: in LOOP mode with rate < 0, scroll_index is exactly 0 when *)
(* the loop() call that resets the scroll index returns.                    *)
C3_ResetLeavesZero ==
    (branch = "loop_reset" /\ scroller.rate < 0 /\ LongText)
        => scroller.scroll_index = 0

(* C5 as stated: after draw(), each of the first `delay' loop() calls is a  *)
(* hold that draws the text at the anchor and leaves scroll_index as        *)
(* draw() left it; call delay + 1 is the first that is not a hold.          *)
C5_StartHold ==
    (pc = "scroll_drawn" /\ LongText) =>
        /\ (calls >= 1 /\ calls <= scroller.delay)
              => /\ branch = "hold"
                 /\ drawn = <<scroller.x>>
                 /\ scroller.scroll_index = Den(scroller.rate)
        /\ calls = scroller.delay + 1 => branch # "hold"

(* C6 as stated: in ONCE or LOOP mode with delay > 0, a text that a loop()  *)
(* call has drawn back at its original position leaves that position only  *)
(* after `delay' consecutive hold calls there.                              *)
C6_HeldAtOrigin ==
    [][(/\ pc = "scroll_drawn" /\ scroller.mode \in {ONCE, LOOP}
        /\ scroller.delay > 0 /\ LongText
        /\ branch # "draw"
        /\ drawn[1] = scroller.x
        /\ drawn'[1] # scroller.x)
         => held = scroller.delay]_vars

(* the text is strictly between its two ends *)
InTransit(p) == canvas_width - scroller.length < p /\ p < scroller.x

(* C7 as stated: in BOUNCE mode with delay > 0, exactly one hold has begun  *)
(* since the previous reversal whenever the direction reverses, and no hold *)
(* call draws the text strictly between its two ends.                       *)
C7_OneHoldPerTurn ==
    [][(pc = "scroll_drawn" /\ scroller.mode = BOUNCE /\ scroller.delay > 0
          /\ LongText)
         => /\ scroller'.direction_mult # scroller.direction_mult
                  => holds_since_turn = 1
            /\ branch' = "hold" => ~InTransit(drawn'[1])]_vars

---------------------------------------------------------------------------
(* Properties of TickerText *)

(* message i lies in the circular window first_idx .. last_idx *)
InWindow(k, i) ==
    IF k.first_idx <= k.last_idx
    THEN k.first_idx <= i /\ i <= k.last_idx
    ELSE k.first_idx <= i \/ i <= k.last_idx

(* message q follows its predecessor p inside the window *)
Behind(k, p, q) ==
    /\ q = (p + 1) % k.n
    /\ InWindow(k, p) /\ InWindow(k, q)
    /\ p # k.last_idx

(* C4 as stated: with wrap and at least two messages, a message admitted    *)
(* behind predecessor p stands at msg_x[p] + msg_len[p] + spacing after the *)
(* tick that admits it, and the offset between a message and its            *)
(* predecessor is the same after every tick on which both are in the        *)
(* window, also when message 0 follows the final message.                   *)
C4_SpacingKept ==
    [][(pc = "ticker_drawn" /\ ticker.wrap /\ ticker.n >= 2 /\ ticker.rate # 0)
         => \A p, q \in 0..(ticker.n - 1) :
              /\ (/\ p = ticker.last_idx /\ q = ticker'.last_idx /\ q # p
                  /\ Behind(ticker', p, q))
                    => ticker'.msg_x[q] - ticker'.msg_x[p]
                         = ticker.msg_len[p] + ticker.spacing
              /\ (Behind(ticker, p, q) /\ Behind(ticker', p, q))
                    => ticker'.msg_x[q] - ticker'.msg_x[p]
                         = ticker.msg_x[q] - ticker.msg_x[p]]_vars

---------------------------------------------------------------------------
(* Properties of the constructors and the primitive shapes *)

IsShapeCall == call # None /\ call.kind \in {"Rect", "Ellipse", "RightTriangle"}
Constructed == pc = "constructed" /\ "kind" \in DOMAIN obj

(* a channel of colour c lies outside [0, 255] *)
ChannelOutOfRange(c) == c # None /\ \E i \in DOMAIN c : c[i] < 0 \/ c[i] > 255

(* C8: constructing a Rect, Ellipse or RightTriangle gives the              *)
(* invalid-parameter error and no object whenever width <= 0, height <= 0,  *)
(* a fill or stroke channel is outside [0, 255], or a stroke colour is      *)
(* present and weight < 0 or weight > height // 2; constructing a           *)
(* ScrollingText does so for a mode other than ONCE, LOOP, BOUNCE.  A       *)
(* shape that is constructed has 0 <= stroke_weight <= height // 2 if it    *)
(* has a stroke colour and stroke_weight = 0 if it has none.                *)
C8_ValidatedAtConstruction ==
    pc = "constructed" =>
        /\ (/\ IsShapeCall
            /\ \/ call.w <= 0 \/ call.h <= 0
               \/ ChannelOutOfRange(call.fill) \/ ChannelOutOfRange(call.stroke)
               \/ call.stroke # None
                    /\ (call.weight < 0 \/ call.weight > call.h \div 2))
              => obj = ValueError
        /\ (call.kind = "ScrollingText" /\ call.mode \notin {ONCE, LOOP, BOUNCE})
              => obj = ValueError
        /\ (IsShapeCall /\ Constructed)
              => IF obj.stroke_color # None
                 THEN 0 <= obj.stroke_weight /\ obj.stroke_weight <= obj.height \div 2
                 ELSE obj.stroke_weight = 0

(* C8 witness: a shape with valid size and colours and a stroke weight one  *)
(* above half its height is refused                                         *)
C8_WeightRefused ==
    /\ pc = "constructed" /\ IsShapeCall
    /\ call.w > 0 /\ call.h > 0
    /\ ~BadColor(call.fill) /\ call.stroke = RGB(0, 0, 0)
    /\ call.weight = call.h \div 2 + 1
    /\ obj = ValueError

(* the cells of the block from (x0, y0) through (x1, y1) *)
Block(x0, y0, x1, y1) == (x0..x1) \X (y0..y1)

(* C9: for an unrotated Rect with a fill colour and stroke weight s, with   *)
(* 2s <= width and 2s <= height, fill_pts is exactly the block from         *)
(* (x+s, y+s) through (x+w-s-1, y+h-s-1), stroke_pts is exactly the rest of *)
(* the w-by-h bounding box with no cell listed twice, their sizes are       *)
(* (w-2s)(h-2s) and w*h - (w-2s)(h-2s), and they are disjoint.              *)
C9_RectFillAndStroke ==
    (/\ Constructed /\ obj.kind = "Rect"
     /\ obj.fill_color # None
     /\ 2 * obj.stroke_weight <= obj.width
     /\ 2 * obj.stroke_weight <= obj.height)
    => LET s == obj.stroke_weight
           w == obj.width
           h == obj.height
           inset == Block(obj.x + s, obj.y + s, obj.x + w - s - 1, obj.y + h - s - 1)
           box == Block(obj.x, obj.y, obj.x + w - 1, obj.y + h - 1)
       IN  /\ SeqSet(obj.fill_pts) = inset
           /\ SeqSet(obj.stroke_pts) = box \ inset
           /\ Len(obj.fill_pts) = (w - 2 * s) * (h - 2 * s)
           /\ Len(obj.stroke_pts) = w * h - (w - 2 * s) * (h - 2 * s)
           /\ SeqSet(obj.fill_pts) \cap SeqSet(obj.stroke_pts) = {}

(* C9 witness: the 4-by-4 Rect with stroke weight 1 has 12 stroke points    *)
(* and 4 fill points                                                        *)
C9_FourByFour ==
    /\ Constructed /\ obj.kind = "Rect"
    /\ obj.fill_color # None
    /\ obj.width = 4 /\ obj.height = 4 /\ obj.stroke_weight = 1
    /\ Len(obj.stroke_pts) = 12 /\ Len(obj.fill_pts) = 4

(* C10 as stated: for every unrotated RightTriangle that is constructed     *)
(* with a fill colour and a stroke colour (here: and a stroke weight of at  *)
(* least 1), no grid cell is both in fill_pts and in stroke_pts.            *)
C10_TriangleDisjoint ==
    (/\ Constructed /\ obj.kind = "RightTriangle"
     /\ obj.fill_color # None /\ obj.stroke_color # None
     /\ obj.stroke_weight >= 1)
    => obj.fill_pts \cap obj.stroke_pts = {}

(* the canvas cells within the outer ellipse of o: centre (x + w/2, y + h/2), *)
(* semi-axes w/2 and h/2, tolerance 0.05                                    *)
OuterSet(o) ==
    { g \in (0..(MatrixCols - 1)) \X (0..(MatrixRows - 1)) :
        20 * ( (2 * g[1] - 2 * o.x - o.width) * (2 * g[1] - 2 * o.x - o.width)
                 * o.height * o.height
             + (2 * g[2] - 2 * o.y - o.height) * (2 * g[2] - 2 * o.y - o.height)
                 * o.width * o.width )
          <= 21 * o.width * o.width * o.height * o.height }

(* C11: every unrotated Ellipse the constructor returns (its outer set then *)
(* being non-empty) has fill_pts within the outer set and stroke_pts equal  *)
(* to the outer set minus fill_pts, so the two are disjoint and their union *)
(* is the outer set; stroke weights of width / 2 and more included.         *)
C11_EllipsePartition ==
    (Constructed /\ obj.kind = "Ellipse") =>
        /\ OuterSet(obj) # {}
        /\ obj.fill_pts \subseteq OuterSet(obj)
        /\ obj.stroke_pts = OuterSet(obj) \ obj.fill_pts
        /\ obj.fill_pts \cap obj.stroke_pts = {}
        /\ obj.fill_pts \cup obj.stroke_pts = OuterSet(obj)

(* an Ellipse whose stroke is at least half its width, with cells to fill *)
C11_WideStroke ==
    /\ Constructed /\ obj.kind = "Ellipse"
    /\ 2 * obj.stroke_weight >= obj.width
    /\ obj.fill_pts # {}

---------------------------------------------------------------------------
(* Properties of rotate() *)

Rotated == pc = "rotate_ready" /\ rot # None /\ Len(rot.angles) > 0
SamePoints == "pts" \in DOMAIN rot.value /\ rot.value.pts = rot.input.pts

(* C12: rotate(P, d) about any pivot returns the point set P itself for     *)
(* every d that is a multiple of 360 (0, 360, -360, 720), for every finite  *)
(* set P of integer points.                                                 *)
C12_FullTurnIsIdentity ==
    (Rotated /\ rot.input.pts # {} /\ Len(rot.angles) = 1
             /\ rot.angles[1] % 360 = 0) => SamePoints

(* C13: about any integer pivot rotate(rotate(P, 90), -90) = P, and a       *)
(* rotation by a multiple of 90 degrees gives as many points as it was      *)
(* given (distinct points stay distinct, none is clipped).  Stated for the  *)
(* arrays the shapes hand to rotate(): non-empty ndarrays.                  *)
C13_QuarterTurnAndBack ==
    (Rotated /\ rot.input.type = "ndarray" /\ rot.input.pts # {}) =>
        /\ rot.angles = <<90, -90>> => SamePoints
        /\ Len(rot.angles) = 1 =>
              /\ "pts" \in DOMAIN rot.value
              /\ Cardinality(rot.value.pts) = Cardinality(rot.input.pts)

---------------------------------------------------------------------------
(* More properties of TickerText *)

TickerRunning == pc = "ticker_drawn" /\ ticker.rate # 0

(* C14: a TickerText of exactly one message is valid: draw() and every      *)
(* loop() after it complete without error, and that message is the whole    *)
(* active window.                                                           *)
C14_SingleMessageValid ==
    (pc # "ticker_new" /\ ticker.n = 1) =>
        /\ pc = "ticker_drawn"
        /\ ticker.first_idx = 0 /\ ticker.last_idx = 0

(* C17: with wrap, the render pass of every loop() draws and advances by    *)
(* rate each message of the circular window first_idx .. last_idx exactly   *)
(* once, and no message outside it.  The message admitted by the call       *)
(* starts from its seat behind the old last message.                        *)
C17_WindowRenderedOnce ==
    [][(TickerRunning /\ ticker.wrap)
         => \A i \in 0..(ticker.n - 1) :
              LET seat == IF ticker'.last_idx # ticker.last_idx /\ i = ticker'.last_idx
                          THEN ticker.msg_x[ticker.last_idx]
                                 + ticker.msg_len[ticker.last_idx] + ticker.spacing
                          ELSE ticker.msg_x[i]
              IN  ticker'.msg_x[i] - seat
                    = IF InWindow(ticker', i) THEN ticker.rate ELSE 0]_vars

(* C18: without wrap the list is run through once: after the last message   *)
(* of the list has been admitted, last_idx never returns to 0 and no        *)
(* message that has left the window is drawn (and advanced) again.          *)
C18_OnceThrough ==
    [][(TickerRunning /\ ~ticker.wrap /\ ticker.n >= 2
          /\ ticker.last_idx = ticker.n - 1)
         => /\ ticker'.last_idx = ticker.n - 1
            /\ \A i \in 0..(ticker.n - 1) :
                  i < ticker'.first_idx => ticker'.msg_x[i] = ticker.msg_x[i]]_vars

(* C19: first_idx and last_idx are both 0 after construction and draw(); a  *)
(* loop() call leaves each unchanged or makes it (old + 1) mod n, and both  *)
(* stay in [0, n).                                                          *)
C19_IndicesStepForward ==
    [][/\ pc = "ticker_new" => (ticker'.first_idx = 0 /\ ticker'.last_idx = 0)
       /\ pc = "ticker_drawn" =>
            /\ ticker'.first_idx \in {ticker.first_idx, (ticker.first_idx + 1) % ticker.n}
            /\ ticker'.last_idx \in {ticker.last_idx, (ticker.last_idx + 1) % ticker.n}
            /\ ticker'.first_idx \in 0..(ticker.n - 1)
            /\ ticker'.last_idx \in 0..(ticker.n - 1)]_vars

(* both indices have gone round: the window runs over the end of the list *)
C19_WindowWrapped ==
    /\ pc = "ticker_drawn" /\ ticker.n = MaxMsgs
    /\ ticker.first_idx = ticker.n - 1 /\ ticker.last_idx = 0
    /\ ticks > ticker.n

(* C20: with n >= 2 messages and a non-zero rate the size of the active     *)
(* window, admissions - retirements + 1, is between 1 and n in every        *)
(* reachable state.                                                          *)
C20_WindowSize ==
    (TickerRunning /\ ticker.n >= 2) => (1 <= window /\ window <= ticker.n)

---------------------------------------------------------------------------
(* Properties of Text *)

RightAligned == pc = "text_ready" /\ label.right_aligned

(* C15 as stated: a right-aligned Text is drawn by every draw() at          *)
(* original x minus the summed character advances of the content it draws,  *)
(* so after a change of content the next draw() alone is re-aligned.        *)
C15_DrawRealigns ==
    (RightAligned /\ label_drawn # None) =>
        label_drawn.x = label.x_og - TotalLen(label_drawn.text)

(* C15 as amended: the position is original x minus the summed advances of  *)
(* the content the constructor or the last adjustAlignment() measured, with *)
(* no drift; draw() renders the current content at that position, and       *)
(* DateTimeDisplay.loop, which re-aligns before it draws, at the position   *)
(* of the content it draws.                                                 *)
C15_AlignedWhenMeasured ==
    RightAligned =>
        /\ label.x = label.x_og - TotalLen(label.measured)
        /\ label_drawn # None =>
              /\ label_drawn.x = label.x_og - TotalLen(label_drawn.measured)
              /\ label_drawn.by = "DateTimeDisplay.loop" =>
                    label_drawn.measured = label_drawn.text

(* draw() alone after a change of content: drawn where the old content was  *)
(* measured                                                                 *)
C15_StaleDraw ==
    /\ RightAligned /\ label_drawn # None
    /\ label_drawn.by = "Text.draw"
    /\ label_drawn.x # label.x_og - TotalLen(label_drawn.text)

---------------------------------------------------------------------------
(* Properties of ThreadLoop *)

InFunction == { i \in TimerIds : threads[i] = "function" }

(* C16: under ThreadLoop the scheduled function is invoked serially: at no  *)
(* time are two invocations executing, a new one starting only after the    *)
(* previous one has returned, however long an invocation takes compared     *)
(* with the interval.                                                       *)
C16_OneInvocationAtATime ==
    pc = "thread_loop" => Cardinality(InFunction) <= 1

Pending == { i \in TimerIds : threads[i] = "waiting" }

(* C23: once stop(), called from the shell thread, has returned (and the    *)
(* shell does not call start() again), the scheduled function is not        *)
(* invoked again and no Timer is pending, whatever a Timer that was firing  *)
(* or a _run that had begun was doing at the time.                          *)
C23_StoppedStaysStopped ==
    [][pc = "thread_stopped" => (frames' = frames /\ Pending' = {})]_vars

Failed == { i \in TimerIds : threads[i] = "failed" }

(* C24: once an invocation has raised and _run has stopped the loop for it, *)
(* the loop is stopped: is_running is false, no Timer is pending and the    *)
(* function is not invoked again.  (Without a stop() from the shell.)       *)
C24_StopsItselfOnError ==
    [][(pc = "thread_loop" /\ Failed # {}) =>
          /\ frames' = frames
          /\ Pending' = {}
          /\ ~tloop'.is_running]_vars

---------------------------------------------------------------------------
(* More properties of ScrollingText *)

(* C21: with a non-zero rate, a loop() call that takes the hold branch      *)
(* draws at x + rate * scroll_index, adds exactly 1 to delay_count and      *)
(* leaves scroll_index and direction_mult alone; any other loop() call      *)
(* resets delay_count to 0; and 0 <= delay_count <= delay throughout.       *)
C21_HoldFrame ==
    [][pc = "scroll_drawn" =>
         /\ branch' = "hold" =>
               /\ drawn' = <<scroller.x + Sign(scroller.rate) * scroller.scroll_index>>
               /\ scroller'.delay_count = scroller.delay_count + 1
               /\ scroller'.scroll_index = scroller.scroll_index
               /\ scroller'.direction_mult = scroller.direction_mult
         /\ branch' # "hold" => scroller'.delay_count = 0
         /\ 0 <= scroller'.delay_count
         /\ scroller'.delay_count <= scroller.delay]_vars

(* the last call of a full hold of the longest delay *)
C21_HoldComplete ==
    /\ pc = "scroll_drawn" /\ branch = "hold"
    /\ scroller.delay = MaxDelay
    /\ scroller.delay_count = scroller.delay

(* C22: with rate = 0, loop() draws the text at the static anchor and       *)
(* leaves scroll_index, delay_count and direction_mult as they were, for    *)
(* any number of calls.                                                     *)
C22_StaticChangesNothing ==
    [][(pc = "scroll_drawn" /\ scroller.rate = 0 /\ scroller.length > 0) =>
         /\ drawn' = <<scroller.x>>
         /\ scroller'.scroll_index = scroller.scroll_index
         /\ scroller'.delay_count = scroller.delay_count
         /\ scroller'.direction_mult = scroller.direction_mult]_vars

(* C30: when a loop step admits a message, the message is placed behind    *)
(* the previous last message in the direction of travel: for rate < 0 its  *)
(* left edge is the previous message's right edge plus the spacing, for    *)
(* rate > 0 it lies to the left of the previous message's left edge.       *)
C30_AdmittedBehind ==
    [][(TickerRunning /\ Admits(ticker, canvas_width)) =>
          LET a == Admit(ticker)
              p == ticker.last_idx
              q == a.last_idx
          IN  /\ ticker'.last_idx = q
              /\ ticker.rate < 0 =>
                   a.msg_x[q] = ticker.msg_x[p] + ticker.msg_len[p] + ticker.spacing
              /\ ticker.rate > 0 => a.msg_x[q] < ticker.msg_x[p]]_vars

---------------------------------------------------------------------------
(* Properties of Module *)

(* C25: after the initial Module.draw, every Module.loop invokes the loop() *)
(* of each component once: an animated component then makes one loop step   *)
(* per frame, and k loop steps in k frames.                                 *)
C25_LoopStepsComponents ==
    [][pc = "module_drawn" =>
         /\ scroller' = LoopResult(scroller, canvas_width)
         /\ drawn' = LoopDrawn(scroller, canvas_width)]_vars

---------------------------------------------------------------------------
(* Further properties of the primitive shapes *)

(* C28: every fill point and every stroke point of an unrotated Rect that   *)
(* the constructor accepted lies in the bounding box                        *)
(* [x, x + width) x [y, y + height), also when the stroke weight exceeds    *)
(* half the width.                                                          *)
C28_RectInsideBox ==
    (Constructed /\ obj.kind = "Rect") =>
        \A q \in SeqSet(obj.fill_pts) \cup SeqSet(obj.stroke_pts) :
            /\ obj.x <= q[1] /\ q[1] < obj.x + obj.width
            /\ obj.y <= q[2] /\ q[2] < obj.y + obj.height

(* C29: an Ellipse called with positive width and height, valid colours     *)
(* and a stroke weight the validation accepts is constructed at every       *)
(* anchor; when no grid cell satisfies the outer inequality its fill_pts    *)
(* and stroke_pts are both empty.                                           *)
C29_EllipseAlwaysConstructed ==
    (/\ pc = "constructed" /\ call.kind = "Ellipse"
     /\ call.w > 0 /\ call.h > 0
     /\ ~BadColor(call.fill) /\ ~BadColor(call.stroke)
     /\ (call.stroke # None => 0 <= call.weight /\ call.weight <= call.h \div 2))
    => /\ Constructed
       /\ obj.fill_pts \cup obj.stroke_pts
            = EllipseStrokeMaskPts(PrimitiveInit(call.x, call.y, call.w, call.h,
                                                 call.fill, call.stroke, call.weight))

---------------------------------------------------------------------------
(* Properties of Line *)

LineDrawn == pc = "line_drawn"
Columns(S) == { q[1] : q \in S }

(* C26: Line.draw of a vertical line (x0 = x1, y0 < y1) of weight k         *)
(* completes, and its i-th stroke iteration (i = 0 .. k-1) paints column    *)
(* x0 + ceil(i / 2) * (-1)^i: the k columns are contiguous around x0.       *)
C26_VerticalColumns ==
    (LineDrawn /\ obj.x0 = obj.x1 /\ obj.y0 < obj.y1) =>
        /\ Len(pixels) = obj.stroke_weight
        /\ \A i \in 0..(obj.stroke_weight - 1) :
              Columns(pixels[i + 1])
                = { obj.x0 + ((i + 1) \div 2) * (IF i % 2 = 0 THEN 1 ELSE -1) }

(* C27: a non-vertical Line of weight 1 with 0 <= x0 < x1 paints the pixel  *)
(* (x0, y0), whatever its start column and slope.                           *)
C27_ThroughStartPoint ==
    (LineDrawn /\ obj.stroke_weight = 1 /\ 0 <= obj.x0 /\ obj.x0 < obj.x1) =>
        <<obj.x0, obj.y0>> \in pixels[1]

===========================================================================
